---- MODULE Spec2Model ----
(***************************************************************************)
(* annonet_infer: the inference pipeline of src/annonet_infer_main.cpp     *)
(* (main) together with read_sample of annonet.h (src/unnamed/part_000).   *)
(*                                                                         *)
(* main is one process; every full-image reader and every result-image     *)
(* writer is a std::thread running the loop of its lambda.  The four       *)
(* dlib::pipe objects are bounded FIFO queues with blocking enqueue and    *)
(* dequeue and a disable() operation.                                      *)
(***************************************************************************)
EXTENDS Integers, Sequences, FiniteSets, TLC

\* Bounds of the model (not program constants).
MaxFiles == 3
MaxReaders == 2
MaxWriters == 2
MaxDim == 2

Readers == 1..MaxReaders
Writers == 1..MaxWriters

VARIABLES
    mainPc,                        \* position of main
    i,                             \* loop counter of the loop main is in
    thrown,                        \* the exception thrown in the process ("" when none)
    exitStatus,                    \* "running", "exit0", "exit1", "exit2", "abort"
    reported,                      \* the handler at line 277 has printed e.what()
    files,                         \* the work list (line 176)
    full_image_reader_count,
    result_image_writer_count,
    full_image_read_requests,
    full_image_read_results,
    result_image_write_requests,
    result_image_write_results,
    readerPc, readerItem,          \* each reader thread: position, local value
    writerPc, writerItem,          \* each writer thread: position, local value
    readersStarted, readersJoined, \* std::vector<std::thread> full_image_readers
    writersStarted, writersJoined, \* std::vector<std::thread> result_image_writers
    sample, result_image,          \* locals of main's inference loop
    taken,                         \* history: image -> number of times its request was dequeued
    decoded,                       \* history: image -> number of completed read_sample calls
    inferred,                      \* history: image -> number of completed annonet_infer calls
    saves,                         \* history: output filename -> number of completed save_png calls
    acksEnqueued,                  \* history: acknowledgements enqueued by writers
    acksDequeued,                  \* history: acknowledgements dequeued by main
    samplesDequeued,               \* history: samples dequeued by main
    writeRequested,                \* history: output filenames of the enqueued write requests
    call                           \* the single call of the read_sample specification

vars == << mainPc, i, thrown, exitStatus, reported, files,
           full_image_reader_count, result_image_writer_count,
           full_image_read_requests, full_image_read_results,
           result_image_write_requests, result_image_write_results,
           readerPc, readerItem, writerPc, writerItem,
           readersStarted, readersJoined, writersStarted, writersJoined,
           sample, result_image, taken, decoded, inferred, saves,
           acksEnqueued, acksDequeued, samplesDequeued, writeRequested, call >>

mainVars == << mainPc, i, thrown, exitStatus, reported >>
configVars == << files, full_image_reader_count, result_image_writer_count >>
pipeVars == << full_image_read_requests, full_image_read_results,
               result_image_write_requests, result_image_write_results >>
readerVars == << readerPc, readerItem >>
writerVars == << writerPc, writerItem >>
threadVars == << readersStarted, readersJoined, writersStarted, writersJoined >>
localVars == << sample, result_image >>
historyVars == << taken, decoded, inferred, saves, acksEnqueued, acksDequeued,
                  samplesDequeued, writeRequested >>

Max(a, b) == IF a >= b THEN a ELSE b

-----------------------------------------------------------------------------
(* dlib::pipe<T>: a FIFO of at most max_size items.                        *)

pipe(max_size) == [data |-> << >>, max_size |-> max_size, enabled |-> TRUE]

\* Faulty variant of enqueue_blocks: waits only once the pipe is over its size.
enqueue_blocks_late(p) == Len(p.data) > p.max_size /\ p.enabled

\* enqueue() waits while the pipe is full and enabled.
enqueue_blocks(p) == Len(p.data) >= p.max_size /\ p.enabled

\* enqueue() on a disabled pipe returns false and adds nothing.
enqueue(p, item) ==
    IF p.enabled THEN [p EXCEPT !.data = Append(@, item)] ELSE p

\* Faulty variant of dequeue_blocks: dequeue() never waits.
dequeue_never_blocks(p) == FALSE

\* dequeue() waits while the pipe is empty and enabled.
dequeue_blocks(p) == Len(p.data) = 0 /\ p.enabled

\* dequeue() returns true with the oldest item, false on an empty pipe.
dequeue_returns(p) == Len(p.data) > 0

\* Faulty variant of dequeue: the oldest item is copied and stays in the pipe.
dequeue_keeps(p) == p

dequeue(p) == [p EXCEPT !.data = Tail(@)]

\* Faulty variant of disable: the pipe stays enabled.
disable_forgotten(p) == p

disable(p) == [p EXCEPT !.enabled = FALSE]

NoItem == [none |-> TRUE]

-----------------------------------------------------------------------------
(* Files on disk and read_sample (annonet.h).                              *)
(* A file is the image_filenames pair plus what dlib::load_image finds at  *)
(* the two paths: whether each file can be loaded, the sizes, and whether  *)
(* every label pixel is a known class colour.  Paths are sequences.        *)

NoLabel == << >>

load_image_throws(readable) == ~readable

\* rgba_label_to_index_label throws on a colour that is no class and not
\* the ignore colour; decode_rgba_label_image calls it for every pixel.
decode_rgba_label_image_throws(f) == ~f.label_known

EmptySample(f) ==
    [ image_filenames |-> [ image_filename |-> f.image_filename,
                            label_filename |-> f.label_filename ],
      input_nr |-> 0, input_nc |-> 0,
      label_nr |-> 0, label_nc |-> 0,
      error |-> "" ]

\* The try block of read_sample: the sample as the block leaves it, and
\* what() of the exception that ended it ("" when it ran to its end).
read_sample_try(f, require_ground_truth) ==
    LET s0 == EmptySample(f) IN
    IF load_image_throws(f.image_readable)
    THEN [ sample |-> s0, what |-> "image_load_error" ]
    ELSE
      LET s1 == [ s0 EXCEPT !.input_nr = f.nr, !.input_nc = f.nc ] IN
      IF f.label_filename # NoLabel
      THEN IF load_image_throws(f.label_readable)
           THEN [ sample |-> s1, what |-> "image_load_error" ]
           ELSE IF s1.input_nr = f.label_nr \/ s1.input_nc = f.label_nc
                THEN LET s2 == [ s1 EXCEPT !.label_nr = f.label_nr,
                                           !.label_nc = f.label_nc ] IN
                     IF decode_rgba_label_image_throws(f)
                     THEN [ sample |-> s2, what |-> "Unknown class" ]
                     ELSE [ sample |-> s2, what |-> "" ]
                ELSE [ sample |-> [ s1 EXCEPT !.error = "Label image size mismatch" ],
                       what |-> "" ]
      ELSE IF require_ground_truth
           THEN [ sample |-> [ s1 EXCEPT !.error = "No ground truth available" ],
                  what |-> "" ]
           ELSE [ sample |-> s1, what |-> "" ]

\* Faulty variant of read_sample: no catch clause, the exception leaves the function.
read_sample_rethrows(f, require_ground_truth) ==
    LET t == read_sample_try(f, require_ground_truth) IN
    [ sample |-> t.sample, escapes |-> t.what # "" ]

\* read_sample: catch (std::exception& e) stores e.what() in sample.error,
\* so no exception escapes the function.
read_sample(f, require_ground_truth) ==
    LET t == read_sample_try(f, require_ground_truth) IN
    [ sample  |-> IF t.what # "" THEN [ t.sample EXCEPT !.error = t.what ]
                  ELSE t.sample,
      escapes |-> FALSE ]

Dims == 1..MaxDim

\* Every file the read_sample specification calls read_sample on.
AnyFiles ==
    { [ image_filename |-> << 1 >>, label_filename |-> lf,
        image_readable |-> ir, nr |-> nr, nc |-> nc,
        label_readable |-> lr, label_nr |-> lnr, label_nc |-> lnc,
        label_known |-> lk ] :
        lf \in { NoLabel, << 1, "_mask", ".png" >> }, ir \in BOOLEAN,
        nr \in Dims, nc \in Dims, lr \in BOOLEAN,
        lnr \in Dims, lnc \in Dims, lk \in BOOLEAN }

\* The files of the pipeline's work list: the k-th file found is an image
\* without a label image that can be loaded ("plain") or cannot
\* ("unreadable").
FileKinds == { "plain", "unreadable" }

PipelineFile(k, kind) ==
    [ image_filename |-> << k >>,
      label_filename |-> NoLabel,
      image_readable |-> kind # "unreadable",
      nr |-> 1, nc |-> 1,
      label_readable |-> FALSE, label_nr |-> 0, label_nc |-> 0,
      label_known |-> FALSE ]

\* Faulty variant of OutputFilename: the image path is left out.
OutputFilename_fixed(image_filename) == << "_probability_map", ".png" >>

\* line 245: the output path is the image path plus a fixed suffix.  A path
\* is the sequence of its parts, a part being a run of characters that is
\* never split ("_probability_map", ".png").
OutputFilename(image_filename) == image_filename \o << "_probability_map", ".png" >>

-----------------------------------------------------------------------------
(* Initial states.                                                         *)

PipelineInit ==
    /\ mainPc = "argc"
    /\ i = 0
    /\ thrown = ""
    /\ exitStatus = "running"
    /\ reported = FALSE
    /\ files = << >>
    /\ full_image_reader_count = 0
    /\ result_image_writer_count = 0
    /\ full_image_read_requests = pipe(0)
    /\ full_image_read_results = pipe(0)
    /\ result_image_write_requests = pipe(0)
    /\ result_image_write_results = pipe(0)
    /\ readerPc = [ r \in Readers |-> "not_started" ]
    /\ readerItem = [ r \in Readers |-> NoItem ]
    /\ writerPc = [ w \in Writers |-> "not_started" ]
    /\ writerItem = [ w \in Writers |-> NoItem ]
    /\ readersStarted = 0
    /\ readersJoined = 0
    /\ writersStarted = 0
    /\ writersJoined = 0
    /\ sample = NoItem
    /\ result_image = NoItem
    /\ taken = << >>
    /\ decoded = << >>
    /\ inferred = << >>
    /\ saves = << >>
    /\ acksEnqueued = 0
    /\ acksDequeued = 0
    /\ samplesDequeued = 0
    /\ writeRequested = {}

Init == PipelineInit /\ call = NoItem

Running == exitStatus = "running" /\ call = NoItem

\* One more occurrence of key k in a counting function.
Count(f, k) == IF k \in DOMAIN f THEN f[k] ELSE 0
Counted(f, k) == [ x \in DOMAIN f \cup { k } |-> IF x = k THEN Count(f, k) + 1 ELSE f[x] ]

-----------------------------------------------------------------------------
(* main (src/annonet_infer_main.cpp, lines 97-281).                        *)

\* A throw statement in main: control leaves the try block.
Throw(what) ==
    /\ mainPc' = "throwing"
    /\ thrown' = what
    /\ UNCHANGED << i, exitStatus, reported >>

\* A std::thread object is joinable from its start until join() returns.
JoinableThreads ==
    (readersStarted - readersJoined) + (writersStarted - writersJoined)

\* lines 99-107: without arguments main prints the usage and returns 1.
MainUsage ==
    /\ Running /\ mainPc = "argc"
    /\ \E argc_is_1 \in BOOLEAN :
         IF argc_is_1
         THEN /\ mainPc' = "returned"
              /\ exitStatus' = "exit1"
              /\ UNCHANGED << i, thrown, reported >>
         ELSE /\ mainPc' = "parse_options"
              /\ UNCHANGED << i, thrown, exitStatus, reported >>
    /\ UNCHANGED << configVars, pipeVars, readerVars, writerVars, threadVars,
                    localVars, historyVars, call >>

\* lines 132-145: an exception of the option parser makes main return 2.
MainParseOptions ==
    /\ Running /\ mainPc = "parse_options"
    /\ \E parsed \in BOOLEAN :
         IF parsed
         THEN /\ mainPc' = "deserialize"
              /\ UNCHANGED << i, thrown, exitStatus, reported >>
         ELSE /\ mainPc' = "returned"
              /\ exitStatus' = "exit2"
              /\ UNCHANGED << i, thrown, reported >>
    /\ UNCHANGED << configVars, pipeVars, readerVars, writerVars, threadVars,
                    localVars, historyVars, call >>

\* lines 147-155: reading annonet.dnn throws when the file is bad.
MainDeserialize ==
    /\ Running /\ mainPc = "deserialize"
    /\ \E ok \in BOOLEAN :
         IF ok
         THEN /\ mainPc' = "parse_anno_classes"
              /\ UNCHANGED << i, thrown, exitStatus, reported >>
         ELSE Throw("serialization_error")
    /\ UNCHANGED << configVars, pipeVars, readerVars, writerVars, threadVars,
                    localVars, historyVars, call >>

\* lines 157-159: parse_anno_classes throws on bad JSON, and the class
\* list must have at least two classes.
MainParseAnnoClasses ==
    /\ Running /\ mainPc = "parse_anno_classes"
    /\ \E ok \in BOOLEAN :
         IF ok
         THEN /\ mainPc' = "parse_gains"
              /\ UNCHANGED << i, thrown, exitStatus, reported >>
         ELSE Throw("anno_classes")
    /\ UNCHANGED << configVars, pipeVars, readerVars, writerVars, threadVars,
                    localVars, historyVars, call >>

\* lines 161-173: parse_class_specific_values throws on a bad gain.
MainParseGains ==
    /\ Running /\ mainPc = "parse_gains"
    /\ \E ok \in BOOLEAN :
         IF ok
         THEN /\ mainPc' = "find_image_files"
              /\ UNCHANGED << i, thrown, exitStatus, reported >>
         ELSE Throw("gains")
    /\ UNCHANGED << configVars, pipeVars, readerVars, writerVars, threadVars,
                    localVars, historyVars, call >>

\* lines 176-178: the work list, and the request pipe sized to it.
MainFindImageFiles ==
    /\ Running /\ mainPc = "find_image_files"
    /\ \E F \in 0..MaxFiles :
         \E kinds \in [ 1..F -> FileKinds ] :
            /\ files' = [ k \in 1..F |-> PipelineFile(k, kinds[k]) ]
            /\ full_image_read_requests' = pipe(F)
    /\ mainPc' = "enqueue_requests"
    /\ i' = 0
    /\ UNCHANGED << thrown, exitStatus, reported,
                    full_image_reader_count, result_image_writer_count,
                    full_image_read_results, result_image_write_requests,
                    result_image_write_results,
                    readerVars, writerVars, threadVars, localVars, historyVars, call >>

\* lines 179-181: one request per file.
MainEnqueueRequest ==
    /\ Running /\ mainPc = "enqueue_requests"
    /\ i < Len(files)
    /\ ~enqueue_blocks(full_image_read_requests)
    /\ full_image_read_requests' = enqueue(full_image_read_requests, files[i + 1])
    /\ i' = i + 1
    /\ UNCHANGED << mainPc, thrown, exitStatus, reported, configVars,
                    full_image_read_results, result_image_write_requests,
                    result_image_write_results,
                    readerVars, writerVars, threadVars, localVars, historyVars, call >>

\* lines 183-188: the thread counts are clamped to at least 1, and the
\* results pipe is sized to the reader count.
MainThreadCounts ==
    /\ Running /\ mainPc = "enqueue_requests"
    /\ i = Len(files)
    /\ \E reader_option \in 0..MaxReaders, writer_option \in 0..MaxWriters :
         /\ full_image_reader_count' = Max(1, reader_option)
         /\ result_image_writer_count' = Max(1, writer_option)
         /\ full_image_read_results' = pipe(Max(1, reader_option))
    /\ mainPc' = "start_readers"
    /\ i' = 0
    /\ UNCHANGED << thrown, exitStatus, reported, files,
                    full_image_read_requests, result_image_write_requests,
                    result_image_write_results,
                    readerVars, writerVars, threadVars, localVars, historyVars, call >>

\* lines 190-197: start one reader thread.
MainStartReader ==
    /\ Running /\ mainPc = "start_readers"
    /\ i < full_image_reader_count
    /\ readersStarted' = i + 1
    /\ readerPc' = [ readerPc EXCEPT ![i + 1] = "dequeue" ]
    /\ i' = i + 1
    /\ UNCHANGED << mainPc, thrown, exitStatus, reported, configVars, pipeVars,
                    readerItem, writerVars, readersJoined, writersStarted,
                    writersJoined, localVars, historyVars, call >>

\* Faulty variant of MainWritePipes: the acknowledgement pipe is sized to
\* the writer count.
MainWritePipes_small ==
    /\ Running /\ mainPc = "start_readers"
    /\ i = full_image_reader_count
    /\ result_image_write_requests' = pipe(result_image_writer_count)
    /\ result_image_write_results' = pipe(result_image_writer_count)
    /\ mainPc' = "start_writers"
    /\ i' = 0
    /\ UNCHANGED << thrown, exitStatus, reported, configVars,
                    full_image_read_requests, full_image_read_results,
                    readerVars, writerVars, threadVars, localVars, historyVars, call >>

\* lines 199-202: the write-request pipe is sized to the writer count, the
\* acknowledgement pipe to the work list.
MainWritePipes ==
    /\ Running /\ mainPc = "start_readers"
    /\ i = full_image_reader_count
    /\ result_image_write_requests' = pipe(result_image_writer_count)
    /\ result_image_write_results' = pipe(Len(files))
    /\ mainPc' = "start_writers"
    /\ i' = 0
    /\ UNCHANGED << thrown, exitStatus, reported, configVars,
                    full_image_read_requests, full_image_read_results,
                    readerVars, writerVars, threadVars, localVars, historyVars, call >>

\* lines 204-215: start one writer thread.
MainStartWriter ==
    /\ Running /\ mainPc = "start_writers"
    /\ i < result_image_writer_count
    /\ writersStarted' = i + 1
    /\ writerPc' = [ writerPc EXCEPT ![i + 1] = "dequeue" ]
    /\ i' = i + 1
    /\ UNCHANGED << mainPc, thrown, exitStatus, reported, configVars, pipeVars,
                    readerVars, writerItem, readersStarted, readersJoined,
                    writersJoined, localVars, historyVars, call >>

\* lines 217-228: DLIB_CASSERT throws when a maximum tile dimension is
\* smaller than the net's minimum input dimension.
MainTileCheck ==
    /\ Running /\ mainPc = "start_writers"
    /\ i = result_image_writer_count
    /\ \E tile_size_ok \in BOOLEAN :
         IF tile_size_ok
         THEN /\ mainPc' = "loop"
              /\ i' = 0
              /\ UNCHANGED << thrown, exitStatus, reported >>
         ELSE Throw("tile_size")
    /\ UNCHANGED << configVars, pipeVars, readerVars, writerVars, threadVars,
                    localVars, historyVars, call >>

\* lines 230-237: take the next decoded sample.
MainDequeueSample ==
    /\ Running /\ mainPc = "loop"
    /\ i < Len(files)
    /\ ~dequeue_blocks(full_image_read_results)
    /\ dequeue_returns(full_image_read_results)
    /\ sample' = Head(full_image_read_results.data)
    /\ full_image_read_results' = dequeue(full_image_read_results)
    /\ samplesDequeued' = samplesDequeued + 1
    /\ mainPc' = "check_error"
    /\ UNCHANGED << i, thrown, exitStatus, reported, configVars,
                    full_image_read_requests, result_image_write_requests,
                    result_image_write_results,
                    readerVars, writerVars, threadVars, result_image,
                    taken, decoded, inferred, saves, acksEnqueued, acksDequeued,
                    writeRequested, call >>

\* Faulty variant of MainCheckError: a sample with an error is skipped.
MainCheckError_skips ==
    /\ Running /\ mainPc = "check_error"
    /\ IF sample.error # ""
       THEN /\ mainPc' = "loop"
            /\ i' = i + 1
            /\ UNCHANGED << thrown, exitStatus, reported >>
       ELSE /\ mainPc' = "infer"
            /\ UNCHANGED << i, thrown, exitStatus, reported >>
    /\ UNCHANGED << configVars, pipeVars, readerVars, writerVars, threadVars,
                    localVars, historyVars, call >>

\* lines 239-241: a sample with an error ends the run.
MainCheckError ==
    /\ Running /\ mainPc = "check_error"
    /\ IF sample.error # ""
       THEN Throw("sample_error")
       ELSE /\ mainPc' = "infer"
            /\ UNCHANGED << i, thrown, exitStatus, reported >>
    /\ UNCHANGED << configVars, pipeVars, readerVars, writerVars, threadVars,
                    localVars, historyVars, call >>

\* Faulty variant of MainInfer: the result image is handed on without the call
\* of annonet_infer.
MainInfer_skipped ==
    /\ Running /\ mainPc = "infer"
    /\ result_image' =
          [ filename |-> OutputFilename(sample.image_filenames.image_filename) ]
    /\ mainPc' = "enqueue_result"
    /\ UNCHANGED << i, thrown, exitStatus, reported, inferred >>
    /\ UNCHANGED << configVars, pipeVars, readerVars, writerVars, threadVars,
                    sample, taken, decoded, saves, acksEnqueued, acksDequeued,
                    samplesDequeued, writeRequested, call >>

\* lines 243-250: the result image of the sample; annonet_infer throws
\* when the net fails on a tile.
MainInfer ==
    /\ Running /\ mainPc = "infer"
    /\ \E inference_ok \in BOOLEAN :
         IF inference_ok
         THEN /\ result_image' =
                   [ filename |-> OutputFilename(sample.image_filenames.image_filename) ]
              /\ inferred' = Counted(inferred, sample.image_filenames.image_filename)
              /\ mainPc' = "enqueue_result"
              /\ UNCHANGED << i, thrown, exitStatus, reported >>
         ELSE /\ Throw("inference")
              /\ UNCHANGED << result_image, inferred >>
    /\ UNCHANGED << configVars, pipeVars, readerVars, writerVars, threadVars,
                    sample, taken, decoded, saves, acksEnqueued, acksDequeued,
                    samplesDequeued, writeRequested, call >>

\* line 252: hand the result image to the writers.
MainEnqueueResult ==
    /\ Running /\ mainPc = "enqueue_result"
    /\ ~enqueue_blocks(result_image_write_requests)
    /\ result_image_write_requests' = enqueue(result_image_write_requests, result_image)
    /\ writeRequested' = writeRequested \cup { result_image.filename }
    /\ mainPc' = "loop"
    /\ i' = i + 1
    /\ UNCHANGED << thrown, exitStatus, reported, configVars,
                    full_image_read_requests, full_image_read_results,
                    result_image_write_results,
                    readerVars, writerVars, threadVars, localVars,
                    taken, decoded, inferred, saves, acksEnqueued, acksDequeued,
                    samplesDequeued, call >>

\* lines 255-258: all images processed.
MainLoopDone ==
    /\ Running /\ mainPc = "loop"
    /\ i = Len(files)
    /\ mainPc' = "drain"
    /\ i' = 0
    /\ UNCHANGED << thrown, exitStatus, reported, configVars, pipeVars,
                    readerVars, writerVars, threadVars, localVars, historyVars, call >>

\* lines 260-263: one acknowledgement per file.
MainDrain ==
    /\ Running /\ mainPc = "drain"
    /\ i < Len(files)
    /\ ~dequeue_blocks(result_image_write_results)
    /\ dequeue_returns(result_image_write_results)
    /\ result_image_write_results' = dequeue(result_image_write_results)
    /\ acksDequeued' = acksDequeued + 1
    /\ i' = i + 1
    /\ UNCHANGED << mainPc, thrown, exitStatus, reported, configVars,
                    full_image_read_requests, full_image_read_results,
                    result_image_write_requests,
                    readerVars, writerVars, threadVars, localVars,
                    taken, decoded, inferred, saves, acksEnqueued,
                    samplesDequeued, writeRequested, call >>

\* lines 265-268: "All result images written!", then both request pipes
\* are disabled.
MainDisable ==
    /\ Running /\ mainPc = "drain"
    /\ i = Len(files)
    /\ full_image_read_requests' = disable(full_image_read_requests)
    /\ result_image_write_requests' = disable(result_image_write_requests)
    /\ mainPc' = "join_readers"
    /\ i' = 0
    /\ UNCHANGED << thrown, exitStatus, reported, configVars,
                    full_image_read_results, result_image_write_results,
                    readerVars, writerVars, threadVars, localVars, historyVars, call >>

\* lines 270-272: join() returns when the thread's function has returned.
MainJoinReader ==
    /\ Running /\ mainPc = "join_readers"
    /\ i < readersStarted
    /\ readerPc[i + 1] = "exited"
    /\ readersJoined' = i + 1
    /\ i' = i + 1
    /\ UNCHANGED << mainPc, thrown, exitStatus, reported, configVars, pipeVars,
                    readerVars, writerVars, readersStarted, writersStarted,
                    writersJoined, localVars, historyVars, call >>

MainReadersJoined ==
    /\ Running /\ mainPc = "join_readers"
    /\ i = readersStarted
    /\ mainPc' = "join_writers"
    /\ i' = 0
    /\ UNCHANGED << thrown, exitStatus, reported, configVars, pipeVars,
                    readerVars, writerVars, threadVars, localVars, historyVars, call >>

\* lines 273-275.
MainJoinWriter ==
    /\ Running /\ mainPc = "join_writers"
    /\ i < writersStarted
    /\ writerPc[i + 1] = "exited"
    /\ writersJoined' = i + 1
    /\ i' = i + 1
    /\ UNCHANGED << mainPc, thrown, exitStatus, reported, configVars, pipeVars,
                    readerVars, writerVars, readersStarted, readersJoined,
                    writersStarted, localVars, historyVars, call >>

\* line 276: main runs off its end, which returns 0.
MainReturn ==
    /\ Running /\ mainPc = "join_writers"
    /\ i = writersStarted
    /\ mainPc' = "returned"
    /\ exitStatus' = "exit0"
    /\ UNCHANGED << i, thrown, reported, configVars, pipeVars,
                    readerVars, writerVars, threadVars, localVars, historyVars, call >>

\* lines 277-281: the handler of main's function-try-block.  Before it
\* runs the locals of main are destroyed; destroying a joinable
\* std::thread calls std::terminate, which aborts the process.
MainUnwind ==
    /\ Running /\ mainPc = "throwing"
    /\ IF JoinableThreads > 0
       THEN /\ mainPc' = "terminated"
            /\ exitStatus' = "abort"
            /\ UNCHANGED reported
       ELSE /\ mainPc' = "returned"
            /\ reported' = TRUE
            /\ exitStatus' = "exit1"
    /\ UNCHANGED << i, thrown, configVars, pipeVars, readerVars, writerVars,
                    threadVars, localVars, historyVars, call >>

MainStep ==
    \/ MainUsage \/ MainParseOptions \/ MainDeserialize
    \/ MainParseAnnoClasses \/ MainParseGains
    \/ MainFindImageFiles \/ MainEnqueueRequest \/ MainThreadCounts
    \/ MainStartReader \/ MainWritePipes \/ MainStartWriter \/ MainTileCheck
    \/ MainDequeueSample \/ MainCheckError \/ MainInfer \/ MainEnqueueResult
    \/ MainLoopDone \/ MainDrain \/ MainDisable
    \/ MainJoinReader \/ MainReadersJoined \/ MainJoinWriter \/ MainReturn
    \/ MainUnwind

-----------------------------------------------------------------------------
(* The full-image reader threads (lines 191-196).                          *)

\* line 193: dequeue a request; false ends the loop and the thread.
ReaderDequeue(r) ==
    /\ Running /\ readerPc[r] = "dequeue"
    /\ ~dequeue_blocks(full_image_read_requests)
    /\ IF dequeue_returns(full_image_read_requests)
       THEN LET f == Head(full_image_read_requests.data) IN
            /\ readerItem' = [ readerItem EXCEPT ![r] = f ]
            /\ full_image_read_requests' = dequeue(full_image_read_requests)
            /\ taken' = Counted(taken, f.image_filename)
            /\ readerPc' = [ readerPc EXCEPT ![r] = "read_sample" ]
       ELSE /\ readerPc' = [ readerPc EXCEPT ![r] = "exited" ]
            /\ UNCHANGED << readerItem, full_image_read_requests, taken >>
    /\ UNCHANGED << mainVars, configVars, full_image_read_results,
                    result_image_write_requests, result_image_write_results,
                    writerVars, threadVars, localVars,
                    decoded, inferred, saves, acksEnqueued, acksDequeued,
                    samplesDequeued, writeRequested, call >>

\* line 194, the argument: read_sample(image_filenames, anno_classes, false).
\* An exception that leaves the thread's function calls std::terminate.
ReaderReadSample(r) ==
    /\ Running /\ readerPc[r] = "read_sample"
    /\ LET res == read_sample(readerItem[r], FALSE) IN
       IF res.escapes
       THEN /\ exitStatus' = "abort"
            /\ thrown' = "read_sample"
            /\ UNCHANGED << readerPc, readerItem, decoded >>
       ELSE /\ readerItem' = [ readerItem EXCEPT ![r] = res.sample ]
            /\ readerPc' = [ readerPc EXCEPT ![r] = "enqueue" ]
            /\ decoded' = Counted(decoded, res.sample.image_filenames.image_filename)
            /\ UNCHANGED << exitStatus, thrown >>
    /\ UNCHANGED << mainPc, i, reported, configVars, pipeVars,
                    writerVars, threadVars, localVars,
                    taken, inferred, saves, acksEnqueued, acksDequeued,
                    samplesDequeued, writeRequested, call >>

\* line 194: enqueue the sample on the results pipe.
ReaderEnqueue(r) ==
    /\ Running /\ readerPc[r] = "enqueue"
    /\ ~enqueue_blocks(full_image_read_results)
    /\ full_image_read_results' = enqueue(full_image_read_results, readerItem[r])
    /\ readerItem' = [ readerItem EXCEPT ![r] = NoItem ]
    /\ readerPc' = [ readerPc EXCEPT ![r] = "dequeue" ]
    /\ UNCHANGED << mainVars, configVars, full_image_read_requests,
                    result_image_write_requests, result_image_write_results,
                    writerVars, threadVars, localVars, historyVars, call >>

ReaderStep(r) == ReaderDequeue(r) \/ ReaderReadSample(r) \/ ReaderEnqueue(r)

-----------------------------------------------------------------------------
(* The result-image writer threads (lines 205-214).                        *)

\* line 208: dequeue a result image; false ends the loop and the thread.
WriterDequeue(w) ==
    /\ Running /\ writerPc[w] = "dequeue"
    /\ ~dequeue_blocks(result_image_write_requests)
    /\ IF dequeue_returns(result_image_write_requests)
       THEN /\ writerItem' = [ writerItem EXCEPT ![w] = Head(result_image_write_requests.data) ]
            /\ result_image_write_requests' = dequeue(result_image_write_requests)
            /\ writerPc' = [ writerPc EXCEPT ![w] = "save_png" ]
       ELSE /\ writerPc' = [ writerPc EXCEPT ![w] = "exited" ]
            /\ UNCHANGED << writerItem, result_image_write_requests >>
    /\ UNCHANGED << mainVars, configVars, full_image_read_requests,
                    full_image_read_results, result_image_write_results,
                    readerVars, threadVars, localVars, historyVars, call >>

\* Faulty variant of WriterSave: the write is acknowledged without the save.
WriterSave_unsaved(w) ==
    /\ Running /\ writerPc[w] = "save_png"
    /\ writerPc' = [ writerPc EXCEPT ![w] = "acknowledge" ]
    /\ UNCHANGED << mainVars, configVars, pipeVars, readerVars, writerItem,
                    threadVars, localVars, historyVars, call >>

\* lines 209-211: resize and save.  save_png throws when the file cannot
\* be written; the exception leaves the thread's function, which calls
\* std::terminate.
WriterSave(w) ==
    /\ Running /\ writerPc[w] = "save_png"
    /\ \E written \in BOOLEAN :
         IF written
         THEN /\ saves' = Counted(saves, writerItem[w].filename)
              /\ writerPc' = [ writerPc EXCEPT ![w] = "acknowledge" ]
              /\ UNCHANGED << exitStatus, thrown >>
         ELSE /\ exitStatus' = "abort"
              /\ thrown' = "save_png"
              /\ UNCHANGED << saves, writerPc >>
    /\ UNCHANGED << mainPc, i, reported, configVars, pipeVars,
                    readerVars, writerItem, threadVars, localVars,
                    taken, decoded, inferred, acksEnqueued, acksDequeued,
                    samplesDequeued, writeRequested, call >>

\* line 212: acknowledge the write.
WriterAcknowledge(w) ==
    /\ Running /\ writerPc[w] = "acknowledge"
    /\ ~enqueue_blocks(result_image_write_results)
    /\ result_image_write_results' = enqueue(result_image_write_results, TRUE)
    /\ acksEnqueued' = acksEnqueued + 1
    /\ writerItem' = [ writerItem EXCEPT ![w] = NoItem ]
    /\ writerPc' = [ writerPc EXCEPT ![w] = "dequeue" ]
    /\ UNCHANGED << mainVars, configVars, full_image_read_requests,
                    full_image_read_results, result_image_write_requests,
                    readerVars, threadVars, localVars,
                    taken, decoded, inferred, saves, acksDequeued,
                    samplesDequeued, writeRequested, call >>

WriterStep(w) == WriterDequeue(w) \/ WriterSave(w) \/ WriterAcknowledge(w)

-----------------------------------------------------------------------------
(* The program.                                                            *)

Next ==
    \/ MainStep
    \/ \E r \in Readers : ReaderStep(r)
    \/ \E w \in Writers : WriterStep(w)

Spec == Init /\ [][Next]_vars

\* Every thread that can take a step eventually takes one.
Fairness ==
    /\ WF_vars(MainStep)
    /\ \A r \in Readers : WF_vars(ReaderStep(r))
    /\ \A w \in Writers : WF_vars(WriterStep(w))

FairSpec == Spec /\ Fairness

-----------------------------------------------------------------------------
(* read_sample on its own: one call on any file.                           *)

ReadSampleInit ==
    /\ PipelineInit
    /\ \E f \in AnyFiles, require_ground_truth \in BOOLEAN :
         call = [ file |-> f, require_ground_truth |-> require_ground_truth,
                  returned |-> FALSE, result |-> NoItem ]

CallReadSample ==
    /\ call # NoItem /\ ~call.returned
    /\ call' = [ call EXCEPT !.returned = TRUE,
                             !.result = read_sample(call.file, call.require_ground_truth) ]
    /\ UNCHANGED << mainVars, configVars, pipeVars, readerVars, writerVars,
                    threadVars, localVars, historyVars >>

ReadSampleSpec == ReadSampleInit /\ [][CallReadSample]_vars

-----------------------------------------------------------------------------
(* Properties.                                                             *)

FileCount == Len(files)
ImageFilenames == { files[k].image_filename : k \in 1..FileCount }
FailsToDecode(f) ==
    LET t == read_sample_try(f, FALSE) IN t.what # "" \/ t.sample.error # ""
ErrorFreeFiles == \A k \in 1..FileCount : ~FailsToDecode(files[k])
ErrorDequeued == sample # NoItem /\ sample.error # ""
ReadersAt(pc) == { r \in Readers : readerPc[r] = pc }
WritersAt(pc) == { w \in Writers : writerPc[w] = pc }
Saved(image_filename) == Count(saves, OutputFilename(image_filename))

CleanTermination ==
    /\ exitStatus = "exit0"
    /\ samplesDequeued = FileCount
    /\ acksDequeued = FileCount
    /\ ~full_image_read_requests.enabled
    /\ ~result_image_write_requests.enabled
    /\ readersStarted = full_image_reader_count
    /\ readersJoined = full_image_reader_count
    /\ writersStarted = result_image_writer_count
    /\ writersJoined = result_image_writer_count
    /\ \A r \in 1..full_image_reader_count : readerPc[r] = "exited"
    /\ \A w \in 1..result_image_writer_count : writerPc[w] = "exited"

\* C1: once the pipeline is set up (all files requested, N >= 1 readers and
\* M >= 1 writers started, the inference loop about to begin), a run over
\* files none of which yields a sample with an error, and in which no
\* inference and no write fails, eventually terminates cleanly: F samples
\* consumed, F acknowledgements received, both request pipes disabled,
\* every reader and writer out of its loop and joined, exit code 0.  In
\* particular it never reaches a state from which it cannot go on.
C1_ErrorFreeRunTerminates ==
    (mainPc = "loop" /\ i = 0 /\ ErrorFreeFiles)
        ~> (CleanTermination \/ thrown \in { "inference", "save_png" })

C1_Witness ==
    /\ CleanTermination
    /\ FileCount >= 2
    /\ full_image_reader_count >= 2
    /\ result_image_writer_count >= 2

\* The point after the acknowledgement loop (line 265) and everything
\* after it.
RunComplete ==
    \/ mainPc = "drain" /\ i = FileCount
    \/ mainPc \in { "join_readers", "join_writers" }
    \/ exitStatus = "exit0"

TotalSaves == LET S == DOMAIN saves
                  sum[T \in SUBSET S] ==
                      IF T = {} THEN 0
                      ELSE LET x == CHOOSE y \in T : TRUE IN saves[x] + sum[T \ { x }]
              IN sum[S]

\* C2: main is at or past "All result images written!" only when it has
\* dequeued exactly F acknowledgements, and then every one of the F
\* output files has been saved; at all times no more acknowledgements
\* have been enqueued than saves have finished.
C2_DrainBarrier ==
    /\ RunComplete =>
         /\ acksDequeued = FileCount
         /\ \A f \in ImageFilenames : Saved(f) >= 1
    /\ acksEnqueued <= TotalSaves
    /\ acksDequeued <= acksEnqueued

C2_Witness == mainPc = "drain" /\ i = FileCount /\ FileCount >= 2

\* C3: no request is dequeued twice (so by two readers) or decoded twice, no image is
\* inferred twice, no output path is saved twice or by two writers at
\* once, and a run that returns 0 has decoded, inferred and saved every
\* one of the F images exactly once, the outputs being exactly the F
\* paths derived from the inputs, with F acknowledgements enqueued.
C3_EachImageExactlyOnce ==
    /\ \A f \in DOMAIN taken : taken[f] = 1
    /\ \A f \in DOMAIN decoded : decoded[f] = 1
    /\ \A f \in DOMAIN inferred : inferred[f] = 1
    /\ \A o \in DOMAIN saves : saves[o] = 1
    /\ \A w1, w2 \in WritersAt("save_png") :
          w1 # w2 => writerItem[w1].filename # writerItem[w2].filename
    /\ exitStatus = "exit0" =>
          /\ DOMAIN taken = ImageFilenames
          /\ DOMAIN decoded = ImageFilenames
          /\ DOMAIN inferred = ImageFilenames
          /\ DOMAIN saves = { OutputFilename(f) : f \in ImageFilenames }
          /\ Cardinality(DOMAIN saves) = FileCount
          /\ acksEnqueued = FileCount

C3_Witness ==
    /\ exitStatus = "exit0"
    /\ FileCount >= 2
    /\ full_image_reader_count >= 2
    /\ result_image_writer_count >= 2

\* C4: when main has dequeued a sample with an error and the process has
\* ended, the handler has reported the error and the exit code is 1; a
\* run that completes exits 0; an option-parsing failure exits 2.
C4_SampleErrorExitsOne ==
    /\ (thrown = "sample_error" /\ exitStatus # "running") =>
          (exitStatus = "exit1" /\ reported)
    /\ (mainPc = "returned" /\ readersStarted > 0) => exitStatus = "exit0"
    /\ exitStatus = "exit2" => (thrown = "" /\ readersStarted = 0)

\* C5: once main holds a sample with an error it dequeues no further
\* sample and enqueues no further write request; every output file is
\* that of a write request main enqueued, and the failing image has none.
C5_NoSkipAndContinue ==
    /\ [][ ErrorDequeued =>
             /\ ErrorDequeued'
             /\ samplesDequeued' = samplesDequeued
             /\ writeRequested' = writeRequested ]_vars
    /\ [](/\ DOMAIN saves \subseteq writeRequested
          /\ ErrorDequeued =>
               OutputFilename(sample.image_filenames.image_filename) \notin writeRequested)

C5_Witness ==
    /\ ErrorDequeued
    /\ mainPc = "throwing"
    /\ samplesDequeued < FileCount
    /\ WritersAt("save_png") # {}

\* Decoded samples not yet taken by main: those in the results pipe and
\* those a reader holds while it enqueues.
InFlight == Len(full_image_read_results.data) + Cardinality(ReadersAt("enqueue"))

\* C6 as claimed: at most N decoded samples are in flight.
C6_InFlightAtMostN == InFlight <= full_image_reader_count

\* C6 as amended: at most N decoded samples are in the results pipe and
\* at most one more is held by each of the N readers, so at most 2N
\* decoded samples are in flight.
C6_InFlightAtMostTwiceN ==
    /\ Len(full_image_read_results.data) <= full_image_reader_count
    /\ Cardinality(ReadersAt("enqueue")) <= full_image_reader_count
    /\ InFlight <= 2 * full_image_reader_count

C6_Witness ==
    /\ full_image_reader_count >= 1
    /\ InFlight = 2 * full_image_reader_count

\* C7: an output file exists only for an image whose inference has
\* completed, a write request or a writer holds only such an image, and
\* inference has completed only for an image whose decode has completed.
C7_PerImageOrdering ==
    /\ \A o \in DOMAIN saves :
          \E f \in DOMAIN inferred : o = OutputFilename(f)
    /\ \A w \in WritersAt("save_png") :
          \E f \in DOMAIN inferred : writerItem[w].filename = OutputFilename(f)
    /\ \A k \in 1..Len(result_image_write_requests.data) :
          \E f \in DOMAIN inferred :
             result_image_write_requests.data[k].filename = OutputFilename(f)
    /\ DOMAIN inferred \subseteq DOMAIN decoded

\* Images are not written in work-list order: the second file's output
\* exists while the first file's does not.
C7_Witness ==
    /\ FileCount >= 2
    /\ Saved(files[2].image_filename) = 1
    /\ Saved(files[1].image_filename) = 0
    /\ files[1].image_filename \in DOMAIN inferred

\* C8: no exception of read_sample ends a reader thread; a reader that
\* has called read_sample holds a sample whose error is non-empty exactly
\* when loading or decoding failed; it leaves that step only by enqueuing
\* the sample on the results pipe and going back to dequeue a request;
\* and main throws a sample's error only after dequeuing that sample.
C8_DecodeFailureKeepsReader ==
    /\ [](/\ thrown # "read_sample"
          /\ \A r \in ReadersAt("enqueue") :
                \E k \in 1..FileCount :
                   /\ readerItem[r].image_filenames.image_filename = files[k].image_filename
                   /\ readerItem[r].error # "" <=> FailsToDecode(files[k])
          /\ thrown = "sample_error" => ErrorDequeued)
    /\ [][ \A r \in Readers :
             (readerPc[r] = "enqueue" /\ readerPc'[r] # "enqueue") =>
                /\ readerPc'[r] = "dequeue"
                /\ full_image_read_results'.data =
                      Append(full_image_read_results.data, readerItem[r]) ]_vars

\* A reader has enqueued a sample with an error and is reading again.
C8_Witness ==
    /\ \E k \in 1..Len(full_image_read_results.data) :
          full_image_read_results.data[k].error # ""
    /\ full_image_reader_count = 1
    /\ readerPc[1] = "read_sample"

CallResult == call.result.sample
LabelLoaded ==
    /\ call.file.image_readable
    /\ call.file.label_filename # NoLabel
    /\ call.file.label_readable
LabelDecoded == CallResult.label_nr # 0 \/ CallResult.label_nc # 0

\* C9: when the label image is present and loaded and its row count or
\* its column count differs from the input image's, the returned sample
\* has an error and the label has not been decoded.
C9_SizeMismatchIsError ==
    (call # NoItem /\ call.returned /\ LabelLoaded) =>
       ( (call.file.nr # call.file.label_nr \/ call.file.nc # call.file.label_nc)
            => (CallResult.error # "" /\ ~LabelDecoded) )

\* C10: when a configuration error is raised (option parsing, class
\* definitions, gains, tile size), no reader or writer thread has been
\* started.
C10_ConfigErrorsBeforeWorkers ==
    (exitStatus = "exit2" \/ thrown \in { "anno_classes", "gains", "tile_size" })
       => (readersStarted = 0 /\ writersStarted = 0)

-----------------------------------------------------------------------------
(* Gain options (annonet_infer_main.cpp lines 30-63).  A std::string is    *)
(* the sequence of its characters.                                        *)

MaxGains == 2
MaxClasses == 3

\* uint16_t holds the values 0..UInt16-1.
UInt16 == 65536
\* dlib::loss_multiclass_log_per_pixel_::label_to_ignore
label_to_ignore == UInt16 - 1

Digits == << "0", "1", "2", "3", "4", "5", "6", "7", "8", "9" >>
IsDigit(c) == \E d \in 1..10 : Digits[d] = c
DigitValue(c) == (CHOOSE d \in 1..10 : Digits[d] = c) - 1

\* std::string::npos, find (0-based position of the first c) and substr.
npos == -1
find(str, c) ==
    IF \E k \in 1..Len(str) : str[k] = c
    THEN (CHOOSE k \in 1..Len(str) :
             str[k] = c /\ \A j \in 1..(k - 1) : str[j] # c) - 1
    ELSE npos
substr(str, pos, count) ==
    SubSeq(str, pos + 1, IF pos + count > Len(str) THEN Len(str) ELSE pos + count)

RECURSIVE DigitPrefix(_)
DigitPrefix(str) ==
    IF str = << >> \/ ~IsDigit(Head(str)) THEN << >>
    ELSE << Head(str) >> \o DigitPrefix(Tail(str))

RECURSIVE Decimal(_)
Decimal(digits) ==
    IF digits = << >> THEN 0
    ELSE 10 * Decimal(SubSeq(digits, 1, Len(digits) - 1))
         + DigitValue(digits[Len(digits)])

\* The conversion std::stoul and std::stod share on the strings used here
\* (an optional sign, then decimal digits; no fraction, no exponent): the
\* longest prefix that is a number is converted, and no digit at all
\* throws std::invalid_argument.
ConvertNumber(str) ==
    LET signed == str # << >> /\ Head(str) \in { "+", "-" }
        digits == DigitPrefix(IF signed THEN Tail(str) ELSE str)
        magnitude == Decimal(digits)
    IN  [ throws |-> digits = << >>,
          value  |-> IF signed /\ Head(str) = "-" THEN 0 - magnitude
                     ELSE magnitude ]

\* std::stoul: the unsigned long of a negated number is 2^64 minus its
\* magnitude, which is the negative value modulo every smaller power of two.
stoul(str) == ConvertNumber(str)
stod(str) == ConvertNumber(str)

\* lines 36-46: "index:value"; class_index is a uint16_t, so the unsigned
\* long std::stoul returns is reduced modulo 2^16 by the assignment.
parse_class_specific_value(str) ==
    LET colon_pos == find(str, ":")
        failed == [ throws |-> TRUE, class_index |-> label_to_ignore, value |-> 0 ]
    IN  IF colon_pos = npos \/ colon_pos < 1 \/ colon_pos >= Len(str) - 1
        THEN failed
        ELSE LET index == stoul(substr(str, 0, colon_pos))
                 value == stod(substr(str, colon_pos + 1, Len(str)))
             IN  IF index.throws \/ value.throws THEN failed
                 ELSE [ throws      |-> FALSE,
                        class_index |-> index.value % UInt16,
                        value       |-> value.value ]

\* lines 52-60: the loop over the strings; values[c + 1] is the gain of
\* class index c.
RECURSIVE parse_class_specific_values_loop(_, _, _)
parse_class_specific_values_loop(strings, class_count, values) ==
    IF strings = << >> THEN [ throws |-> FALSE, values |-> values ]
    ELSE LET v == parse_class_specific_value(Head(strings))
         IN  IF v.throws \/ v.class_index >= class_count
             THEN [ throws |-> TRUE, values |-> << >> ]
             ELSE parse_class_specific_values_loop(
                      Tail(strings), class_count,
                      [ values EXCEPT ![v.class_index + 1] = v.value ])

\* Faulty variant of parse_class_specific_values: the values start at 1.
parse_class_specific_values_ones(strings, class_count) ==
    parse_class_specific_values_loop(strings, class_count,
                                     [ c \in 1..class_count |-> 1 ])

\* lines 48-63
parse_class_specific_values(strings, class_count) ==
    parse_class_specific_values_loop(strings, class_count,
                                     [ c \in 1..class_count |-> 0 ])

\* The strings a user gives to --gain.
GainStrings ==
    { << "0", ":", "1" >>, << "1", ":", "2" >>, << "1", ":", "-", "1" >>,
      << "2", ":", "1" >>, << "3", ":", "1" >>,
      << "6", "5", "5", "3", "6", ":", "2" >>,
      << "6", "5", "5", "3", "7", ":", "1" >>,
      << "1" >>, << ":", "1" >>, << "x", ":", "1" >> }

RECURSIVE SeqsUpTo(_, _)
SeqsUpTo(S, n) ==
    IF n = 0 THEN { << >> }
    ELSE LET shorter == SeqsUpTo(S, n - 1)
         IN  shorter \cup { Append(s, x) : s \in shorter, x \in S }

GainsInit ==
    /\ PipelineInit
    /\ \E strings \in SeqsUpTo(GainStrings, MaxGains), class_count \in 2..MaxClasses :
         call = [ strings |-> strings, class_count |-> class_count,
                  returned |-> FALSE, result |-> NoItem ]

CallParseGains ==
    /\ call # NoItem /\ ~call.returned
    /\ call' = [ call EXCEPT !.returned = TRUE,
                             !.result = parse_class_specific_values(
                                            call.strings, call.class_count) ]
    /\ UNCHANGED << mainVars, configVars, pipeVars, readerVars, writerVars,
                    threadVars, localVars, historyVars >>

GainsSpec == GainsInit /\ [][CallParseGains]_vars

\* The index and the value a well-formed gain string spells out.
IndexPart(str) == substr(str, 0, find(str, ":"))
WellFormedGain(str) ==
    /\ ~parse_class_specific_value(str).throws
    /\ \A k \in 1..Len(IndexPart(str)) : IsDigit(IndexPart(str)[k])
WrittenIndex(str) == Decimal(IndexPart(str))
WrittenValue(str) == stod(substr(str, find(str, ":") + 1, Len(str))).value
GainsReturned == call # NoItem /\ call.returned

\* C11: a list of gain strings in which some well-formed string spells a
\* non-negative class index that is not below the class count makes
\* parse_class_specific_values throw, so no gain vector is produced.
C11_OutOfRangeIndexRejected ==
    ( /\ GainsReturned
      /\ \E k \in 1..Len(call.strings) :
            /\ WellFormedGain(call.strings[k])
            /\ WrittenIndex(call.strings[k]) >= call.class_count )
       => call.result.throws

ValidGains ==
    \A k \in 1..Len(call.strings) :
       /\ WellFormedGain(call.strings[k])
       /\ WrittenIndex(call.strings[k]) < call.class_count
NamedAt(c) == { k \in 1..Len(call.strings) : WrittenIndex(call.strings[k]) = c }
LastGain(c) ==
    IF NamedAt(c) = { } THEN 0
    ELSE WrittenValue(call.strings[CHOOSE k \in NamedAt(c) :
                                      \A j \in NamedAt(c) : j <= k])

\* C12: for a list of valid gain strings parse_class_specific_values
\* returns class_count values, the value for class index c being the one of
\* the last string that names c, and 0 when no string names c.
C12_LastGainWins ==
    (GainsReturned /\ ValidGains) =>
       /\ ~call.result.throws
       /\ Len(call.result.values) = call.class_count
       /\ \A c \in 0..(call.class_count - 1) :
             call.result.values[c + 1] = LastGain(c)

\* Two strings name the same class with different values, and another
\* class is named by none.
C12_Witness ==
    /\ GainsReturned /\ ValidGains
    /\ \E c \in 0..(call.class_count - 1) :
          /\ Cardinality(NamedAt(c)) = 2
          /\ \E j, k \in NamedAt(c) :
                WrittenValue(call.strings[j]) # WrittenValue(call.strings[k])
    /\ \E c \in 0..(call.class_count - 1) : NamedAt(c) = { }

-----------------------------------------------------------------------------
(* Tiling under the parameters main passes (annonet_infer_main.cpp lines   *)
(* 217-226, 250).  The planner annonet_infer calls is described by the     *)
(* specification's section 4.1.                                           *)

MaxImage == 5
MaxTile == 4
MaxMinDim == 2

Min(a, b) == IF a <= b THEN a ELSE b

\* The core intervals of one axis of the grid: steps of `core` pixels from
\* 0, the last one cut at the image's end.  No interval of a positive
\* length is <= a core dimension of 0 or less: no grid is emitted then.
GridCores(length, core) ==
    IF core <= 0 THEN << >>
    ELSE [ k \in 1..((length + core - 1) \div core) |->
             [ lo |-> (k - 1) * core, hi |-> Min(k * core, length) ] ]

\* The core interval expanded by the margin on both sides, clipped to the
\* image.
ExpandCore(c, length, contextMargin) ==
    [ lo |-> Max(0, c.lo - contextMargin), hi |-> Min(length, c.hi + contextMargin) ]

\* plan(imageWidth, imageHeight, maxTileWidth, maxTileHeight, contextMargin):
\* the (tile, core region) pairs in raster order.
plan(imageWidth, imageHeight, maxTileWidth, maxTileHeight, contextMargin) ==
    IF imageWidth <= maxTileWidth /\ imageHeight <= maxTileHeight
    THEN LET whole == [ x |-> [ lo |-> 0, hi |-> imageWidth ],
                        y |-> [ lo |-> 0, hi |-> imageHeight ] ]
         IN  << [ tile |-> whole, core |-> whole ] >>
    ELSE LET columns == GridCores(imageWidth, maxTileWidth - 2 * contextMargin)
             rows == GridCores(imageHeight, maxTileHeight - 2 * contextMargin)
             nc == Len(columns)
         IN  [ k \in 1..(Len(rows) * nc) |->
                 LET column == columns[((k - 1) % nc) + 1]
                     row == rows[((k - 1) \div nc) + 1]
                 IN  [ core |-> [ x |-> column, y |-> row ],
                       tile |-> [ x |-> ExpandCore(column, imageWidth, contextMargin),
                                  y |-> ExpandCore(row, imageHeight, contextMargin) ] ] ]

\* lines 217-226: the overlap on both axes is the model's minimum input
\* dimension, and the maximum tile width and height are only required to
\* be at least that dimension.
tiling_parameters(max_tile_width, max_tile_height, min_input_dimension) ==
    [ max_tile_width |-> max_tile_width, max_tile_height |-> max_tile_height,
      overlap_x |-> min_input_dimension, overlap_y |-> min_input_dimension ]

TilingInit ==
    /\ PipelineInit
    /\ \E nc \in 1..MaxImage, nr \in 1..MaxImage, min_input_dimension \in 1..MaxMinDim,
          max_tile_width \in 1..MaxTile, max_tile_height \in 1..MaxTile :
         /\ max_tile_width >= min_input_dimension
         /\ max_tile_height >= min_input_dimension
         /\ call = [ nc |-> nc, nr |-> nr,
                     parameters |-> tiling_parameters(max_tile_width, max_tile_height,
                                                      min_input_dimension),
                     returned |-> FALSE, result |-> NoItem ]

\* line 250: annonet_infer plans the tiles of the input image.
CallPlan ==
    /\ call # NoItem /\ ~call.returned
    /\ call' = [ call EXCEPT !.returned = TRUE,
                             !.result = plan(call.nc, call.nr,
                                             call.parameters.max_tile_width,
                                             call.parameters.max_tile_height,
                                             call.parameters.overlap_x) ]
    /\ UNCHANGED << mainVars, configVars, pipeVars, readerVars, writerVars,
                    threadVars, localVars, historyVars >>

TilingSpec == TilingInit /\ [][CallPlan]_vars

CoresAt(x, y) ==
    { k \in 1..Len(call.result) :
        /\ call.result[k].core.x.lo <= x /\ x < call.result[k].core.x.hi
        /\ call.result[k].core.y.lo <= y /\ y < call.result[k].core.y.hi }

-----------------------------------------------------------------------------
(* Class definitions (annonet.h lines 28-110, 129-142;                     *)
(* annonet_infer_main.cpp lines 67-72).  A JSON document is the kind of    *)
(* its top level and, for an object with an anno_classes array, the        *)
(* array's elements.                                                       *)

\* unsigned char holds the values 0..UChar-1.
UChar == 256

\* dlib::rgb_alpha_pixel(red, green, blue, alpha): unsigned char components.
rgb_alpha_pixel(red, green, blue, alpha) ==
    << red % UChar, green % UChar, blue % UChar, alpha % UChar >>

\* line 46
rgba_ignore_label == rgb_alpha_pixel(0, 0, 0, 0)

\* lines 35-43: the index is a uint16_t.
AnnoClass(index, rgba_label, classlabel) ==
    [ index |-> index % UInt16, rgba_label |-> rgba_label, classlabel |-> classlabel ]

\* Faulty variant of parse_anno_class: the reserved colour is accepted.
parse_anno_class_unchecked(anno_class, pos) ==
    IF ~anno_class.has_name \/ ~anno_class.has_color \/ ~anno_class.has_components
    THEN [ throws |-> TRUE ]
    ELSE [ throws |-> FALSE,
           class  |-> AnnoClass(pos, rgb_alpha_pixel(anno_class.red, anno_class.green,
                                                   anno_class.blue, anno_class.alpha),
                                anno_class.name) ]

\* lines 76-106: one element of the array; pos is its position from 0 (i in
\* the source).
parse_anno_class(anno_class, pos) ==
    IF ~anno_class.has_name THEN [ throws |-> TRUE ]
    ELSE IF ~anno_class.has_color THEN [ throws |-> TRUE ]
    ELSE IF ~anno_class.has_components THEN [ throws |-> TRUE ]
    ELSE LET rgba_value == rgb_alpha_pixel(anno_class.red, anno_class.green,
                                           anno_class.blue, anno_class.alpha)
         IN  IF rgba_value = rgba_ignore_label THEN [ throws |-> TRUE ]
             ELSE [ throws |-> FALSE,
                    class  |-> AnnoClass(pos, rgba_value, anno_class.name) ]

\* lines 75-107: the loop over the array; the first element that throws
\* ends it.
parse_anno_classes_loop(array) ==
    IF \E k \in 1..Len(array) : parse_anno_class(array[k], k - 1).throws
    THEN [ throws |-> TRUE, anno_classes |-> << >> ]
    ELSE [ throws |-> FALSE,
           anno_classes |-> [ k \in 1..Len(array) |->
                                parse_anno_class(array[k], k - 1).class ] ]

\* lines 49-110
parse_anno_classes(json) ==
    IF json.kind = "empty"
    THEN [ throws |-> FALSE,
           anno_classes |-> << AnnoClass(0, rgb_alpha_pixel(0, 255, 0, 64), "clean"),
                               AnnoClass(1, rgb_alpha_pixel(255, 0, 0, 128), "defect") >> ]
    ELSE IF json.kind \in { "parse_error", "not_object", "no_array" }
    THEN [ throws |-> TRUE, anno_classes |-> << >> ]
    ELSE parse_anno_classes_loop(json.anno_classes)

\* lines 129-142: the ignore colour, else the first class of that colour,
\* else "Unknown class".
rgba_label_to_index_label(rgba_label, anno_classes) ==
    IF rgba_label = rgba_ignore_label
    THEN [ throws |-> FALSE, index |-> label_to_ignore ]
    ELSE IF \E k \in 1..Len(anno_classes) : anno_classes[k].rgba_label = rgba_label
    THEN [ throws |-> FALSE,
           index  |-> anno_classes[CHOOSE k \in 1..Len(anno_classes) :
                          /\ anno_classes[k].rgba_label = rgba_label
                          /\ \A j \in 1..(k - 1) :
                                anno_classes[j].rgba_label # rgba_label].index ]
    ELSE [ throws |-> TRUE, index |-> label_to_ignore ]

\* annonet_infer_main.cpp lines 67-72
index_label_to_rgba_label(index_label, anno_classes) ==
    anno_classes[index_label + 1].rgba_label

\* The elements of an anno_classes array: a name and a colour of four
\* integers, or an element that lacks its name, its colour or a component.
JsonColors ==
    { << 0, 0, 0, 0 >>, << 256, 0, 0, 0 >>, << 0, 255, 0, 64 >>,
      << 255, 0, 0, 128 >>, << 511, 0, 0, 128 >> }
JsonClasses ==
    { [ name |-> "class", has_name |-> TRUE, has_color |-> TRUE,
        has_components |-> TRUE,
        red |-> c[1], green |-> c[2], blue |-> c[3], alpha |-> c[4] ] :
        c \in JsonColors }
    \cup
    { [ name |-> "class", has_name |-> hn, has_color |-> hc, has_components |-> FALSE,
        red |-> 0, green |-> 0, blue |-> 0, alpha |-> 0 ] :
        hn \in BOOLEAN, hc \in BOOLEAN }
\* The documents: the four without an array, the arrays of up to
\* MaxClasses elements, and three long arrays of one repeated element, as
\* long as the uint16_t index allows, one longer and two longer.
LongArray(n) ==
    [ k \in 1..n |->
        [ name |-> "class", has_name |-> TRUE, has_color |-> TRUE,
          has_components |-> TRUE,
          red |-> 255, green |-> 0, blue |-> 0, alpha |-> 128 ] ]
JsonDocuments ==
    { [ kind |-> k, anno_classes |-> << >> ] :
        k \in { "empty", "parse_error", "not_object", "no_array" } }
    \cup
    { [ kind |-> "array", anno_classes |-> a ] : a \in SeqsUpTo(JsonClasses, MaxClasses) }
    \cup
    { [ kind |-> "array", anno_classes |-> LongArray(n) ] :
        n \in { UInt16 - 1, UInt16, UInt16 + 1 } }

AnnoClassesInit ==
    /\ PipelineInit
    /\ \E json \in JsonDocuments :
         call = [ json |-> json, returned |-> FALSE, result |-> NoItem ]

CallParseAnnoClasses ==
    /\ call # NoItem /\ ~call.returned
    /\ call' = [ call EXCEPT !.returned = TRUE,
                             !.result = parse_anno_classes(call.json) ]
    /\ UNCHANGED << mainVars, configVars, pipeVars, readerVars, writerVars,
                    threadVars, localVars, historyVars >>

AnnoClassesSpec == AnnoClassesInit /\ [][CallParseAnnoClasses]_vars

ClassListReturned == call # NoItem /\ call.returned /\ ~call.result.throws
ClassList == call.result.anno_classes
WritesReservedColor(anno_class) ==
    /\ anno_class.has_color /\ anno_class.has_components
    /\ << anno_class.red, anno_class.green, anno_class.blue, anno_class.alpha >>
          = << 0, 0, 0, 0 >>

\* C14 as claimed: a returned class list has the index i at position i
\* (from 0) and no class of the colour (0,0,0,0); rgba_label_to_index_label
\* maps (0,0,0,0) to label_to_ignore, which is no class's index; and a JSON
\* array with an element of the colour (0,0,0,0) makes parsing throw.
C14_DenseIndicesAndReservedColor ==
    /\ ClassListReturned =>
          /\ \A k \in 1..Len(ClassList) :
                /\ ClassList[k].index = k - 1
                /\ ClassList[k].rgba_label # << 0, 0, 0, 0 >>
                /\ ClassList[k].index # label_to_ignore
          /\ rgba_label_to_index_label(<< 0, 0, 0, 0 >>, ClassList)
                = [ throws |-> FALSE, index |-> label_to_ignore ]
    /\ ( /\ call # NoItem /\ call.returned /\ call.json.kind = "array"
         /\ \E k \in 1..Len(call.json.anno_classes) :
               WritesReservedColor(call.json.anno_classes[k]) )
          => call.result.throws

\* C14 as amended: the same, for class lists of at most 65535 classes, the
\* indices a uint16_t holds below label_to_ignore.
C14_DenseUpToIgnoreLabel ==
    /\ (ClassListReturned /\ Len(ClassList) <= label_to_ignore) =>
          /\ \A k \in 1..Len(ClassList) :
                /\ ClassList[k].index = k - 1
                /\ ClassList[k].rgba_label # << 0, 0, 0, 0 >>
                /\ ClassList[k].index # label_to_ignore
          /\ rgba_label_to_index_label(<< 0, 0, 0, 0 >>, ClassList)
                = [ throws |-> FALSE, index |-> label_to_ignore ]
    /\ ( /\ call # NoItem /\ call.returned /\ call.json.kind = "array"
         /\ \E k \in 1..Len(call.json.anno_classes) :
               WritesReservedColor(call.json.anno_classes[k]) )
          => call.result.throws

\* A class list of 65535 classes has been returned for a JSON array.
C14_Witness ==
    /\ ClassListReturned /\ call.json.kind = "array"
    /\ Len(ClassList) = label_to_ignore

\* C15: in a returned class list no two classes have the same colour, and
\* every class index i is the index of the colour of i.
C15_ColorRoundTrip ==
    ClassListReturned =>
       /\ \A j, k \in 1..Len(ClassList) :
             j # k => ClassList[j].rgba_label # ClassList[k].rgba_label
       /\ \A k \in 1..Len(ClassList) :
             rgba_label_to_index_label(
                 index_label_to_rgba_label(ClassList[k].index, ClassList), ClassList)
                = [ throws |-> FALSE, index |-> ClassList[k].index ]

-----------------------------------------------------------------------------
(* Write failures.                                                         *)

\* C16: when a writer's save_png has failed and the process has ended, the
\* failure has been reported by main's handler and the process has not
\* exited with status 0.
C16_WriteFailureReported ==
    (thrown = "save_png" /\ exitStatus # "running") =>
       (reported /\ exitStatus # "exit0")

-----------------------------------------------------------------------------
(* Image discovery (annonet.h lines 163-209) before and after a run.  A    *)
(* directory is the set of the paths of its files.                         *)

\* dlib::match_ending(ending)(name): the name ends with the ending.
match_ending(ending, name) ==
    /\ Len(name) >= Len(ending)
    /\ SubSeq(name, Len(name) - Len(ending) + 1, Len(name)) = ending

\* lines 169-179: the filter given to get_files_in_directory_tree.
IsImageFile(name) ==
    IF match_ending(<< "_mask", ".png" >>, name) THEN FALSE
    ELSE IF match_ending(<< "_result", ".png" >>, name) THEN FALSE
    ELSE \/ match_ending(<< ".jpeg" >>, name)
         \/ match_ending(<< ".jpg" >>, name)
         \/ match_ending(<< ".png" >>, name)

\* lines 163-209: the image files of the directory, each with its label
\* file when that file exists; the order of the list is the directory's.
find_image_files(directory, require_ground_truth) ==
    LET label_filename(name) == name \o << "_mask", ".png" >>
        label_file_exists(name) == label_filename(name) \in directory
    IN  { [ image_filename |-> name,
            label_filename |-> IF label_file_exists(name) THEN label_filename(name)
                               ELSE NoLabel ] :
            name \in { n \in directory :
                         /\ IsImageFile(n)
                         /\ (label_file_exists(n) \/ ~require_ground_truth) } }

\* The files an input directory can hold before a run.
DirectoryFiles ==
    { << "a", ".png" >>, << "b", ".jpg" >>, << "c", ".jpeg" >>, << "d", ".txt" >>,
      << "a", ".png", "_mask", ".png" >>, << "b", "_result", ".png" >>,
      << "e", "_mask", ".png" >> }

DiscoveryInit ==
    /\ PipelineInit
    /\ \E directory \in SUBSET DirectoryFiles :
         call = [ directory |-> directory, stage |-> "start",
                  before |-> { }, after |-> { } ]

\* line 176: the work list of the run.
CallFindImageFiles ==
    /\ call # NoItem /\ call.stage = "start"
    /\ call' = [ call EXCEPT !.stage = "found",
                             !.before = find_image_files(call.directory, FALSE) ]
    /\ UNCHANGED << mainVars, configVars, pipeVars, readerVars, writerVars,
                    threadVars, localVars, historyVars >>

\* lines 245, 211: a completed run has saved the result image of every
\* file of its work list.
CompleteRun ==
    /\ call # NoItem /\ call.stage = "found"
    /\ call' = [ call EXCEPT !.stage = "ran",
                             !.directory = call.directory \cup
                                 { OutputFilename(f.image_filename) : f \in call.before } ]
    /\ UNCHANGED << mainVars, configVars, pipeVars, readerVars, writerVars,
                    threadVars, localVars, historyVars >>

\* line 176 of a later run on the same directory.
CallFindImageFilesAgain ==
    /\ call # NoItem /\ call.stage = "ran"
    /\ call' = [ call EXCEPT !.stage = "found_again",
                             !.after = find_image_files(call.directory, FALSE) ]
    /\ UNCHANGED << mainVars, configVars, pipeVars, readerVars, writerVars,
                    threadVars, localVars, historyVars >>

DiscoveryNext == CallFindImageFiles \/ CompleteRun \/ CallFindImageFilesAgain

DiscoverySpec == DiscoveryInit /\ [][DiscoveryNext]_vars

\* C17: no file discovery returns ends in a mask or result suffix or is a
\* result file a run has written, and discovery after a completed run
\* returns the work list it returned before the run.
C17_OutputsNotRediscovered ==
    /\ (call # NoItem /\ call.stage # "start") =>
          \A f \in call.before \cup call.after :
             /\ ~match_ending(<< "_mask", ".png" >>, f.image_filename)
             /\ ~match_ending(<< "_result", ".png" >>, f.image_filename)
    /\ (call # NoItem /\ call.stage = "found_again") =>
          /\ call.after = call.before
          /\ \A f \in call.before, g \in call.after :
                g.image_filename # OutputFilename(f.image_filename)

-----------------------------------------------------------------------------
(* Queues sized to the work list.                                          *)

\* C18: while main enqueues the read requests no reader runs and the
\* request pipe is not full, and a writer about to acknowledge never finds
\* the acknowledgement pipe full.
C18_SizedToWorkNeverBlocks ==
    /\ (Running /\ mainPc = "enqueue_requests" /\ i < Len(files)) =>
          /\ readersStarted = 0
          /\ ~enqueue_blocks(full_image_read_requests)
    /\ \A w \in Writers :
          writerPc[w] = "acknowledge" => ~enqueue_blocks(result_image_write_results)

\* A writer is about to acknowledge while every other acknowledgement of
\* the run is still in the pipe.
C18_Witness ==
    /\ Len(files) >= 2
    /\ Len(result_image_write_results.data) = Len(files) - 1
    /\ \E w \in Writers : writerPc[w] = "acknowledge"

-----------------------------------------------------------------------------
(* Bounded queues.                                                         *)

Grows(p, q) == Len(q.data) > Len(p.data)

QueueCapacities ==
    /\ Len(full_image_read_requests.data) <= Len(files)
    /\ Len(full_image_read_results.data) <= full_image_reader_count
    /\ Len(result_image_write_requests.data) <= result_image_writer_count
    /\ Len(result_image_write_results.data) <= Len(files)
    /\ readersStarted > 0 => full_image_reader_count >= 1
    /\ writersStarted > 0 => result_image_writer_count >= 1

\* No step adds to a queue that holds its capacity, and a producer at such
\* a queue stays where it is.
ProducersWait ==
    /\ Grows(full_image_read_requests, full_image_read_requests')
          => Len(full_image_read_requests.data) < Len(files)
    /\ Grows(full_image_read_results, full_image_read_results')
          => Len(full_image_read_results.data) < full_image_reader_count
    /\ Grows(result_image_write_requests, result_image_write_requests')
          => Len(result_image_write_requests.data) < result_image_writer_count
    /\ Grows(result_image_write_results, result_image_write_results')
          => Len(result_image_write_results.data) < Len(files)
    /\ \A r \in Readers :
          ( /\ readerPc[r] = "enqueue"
            /\ Len(full_image_read_results.data) >= full_image_reader_count )
             => (readerPc'[r] = "enqueue" /\ readerItem'[r] = readerItem[r])
    /\ ( /\ mainPc = "enqueue_result"
         /\ Len(result_image_write_requests.data) >= result_image_writer_count )
          => (mainPc' = "enqueue_result" /\ result_image' = result_image)

\* A consumer at an empty queue that is not disabled stays where it is.
ConsumersWait ==
    /\ \A r \in Readers :
          ( /\ readerPc[r] = "dequeue"
            /\ full_image_read_requests.data = << >>
            /\ full_image_read_requests.enabled )
             => readerPc'[r] = "dequeue"
    /\ \A w \in Writers :
          ( /\ writerPc[w] = "dequeue"
            /\ result_image_write_requests.data = << >>
            /\ result_image_write_requests.enabled )
             => writerPc'[w] = "dequeue"
    /\ ( /\ mainPc = "loop" /\ i < Len(files)
         /\ full_image_read_results.data = << >> )
          => (mainPc' = "loop" /\ i' = i)
    /\ ( /\ mainPc = "drain" /\ i < Len(files)
         /\ result_image_write_results.data = << >> )
          => (mainPc' = "drain" /\ i' = i)

\* C19: always, the read-request queue holds at most F items, the
\* read-result queue at most the reader count, the write-request queue at
\* most the writer count and the acknowledgement queue at most F (both
\* counts at least 1); and in every step a producer at a full queue and a
\* consumer at an empty, enabled queue wait.
C19_BoundedQueues ==
    /\ []QueueCapacities
    /\ [][ProducersWait /\ ConsumersWait]_vars

\* A reader waits at the full read-result queue while a writer waits at
\* the empty write-request queue.
C19_Witness ==
    /\ \E r \in Readers :
          /\ readerPc[r] = "enqueue"
          /\ Len(full_image_read_results.data) = full_image_reader_count
    /\ \E w \in Writers :
          /\ writerPc[w] = "dequeue"
          /\ result_image_write_requests.data = << >>
          /\ result_image_write_requests.enabled

-----------------------------------------------------------------------------
(* Ownership of samples and result images.                                 *)

SampleName(s) == s.image_filenames.image_filename

\* The parties that hold the decoded sample of the image f: readers about
\* to enqueue it, places of the read-result queue, and main from its
\* dequeue to the end of the loop body (or from the throw that ends the
\* loop on).
ReadersHolding(f) ==
    { r \in Readers : readerPc[r] = "enqueue" /\ SampleName(readerItem[r]) = f }
ResultPlacesHolding(f) ==
    { k \in 1..Len(full_image_read_results.data) :
        SampleName(full_image_read_results.data[k]) = f }
MainHoldsSample(f) ==
    /\ sample # NoItem /\ SampleName(sample) = f
    /\ mainPc \in { "check_error", "infer", "enqueue_result", "throwing", "terminated" }
SampleHolders(f) ==
    Cardinality(ReadersHolding(f)) + Cardinality(ResultPlacesHolding(f))
       + (IF MainHoldsSample(f) THEN 1 ELSE 0)

\* The parties that hold the result image o: main until it has enqueued
\* it, places of the write-request queue, and writers from their dequeue
\* to their acknowledgement.
MainHoldsResult(o) == mainPc = "enqueue_result" /\ result_image.filename = o
RequestPlacesHolding(o) ==
    { k \in 1..Len(result_image_write_requests.data) :
        result_image_write_requests.data[k].filename = o }
WritersHolding(o) ==
    { w \in Writers : writerItem[w] # NoItem /\ writerItem[w].filename = o }
ResultHolders(o) ==
    (IF MainHoldsResult(o) THEN 1 ELSE 0) + Cardinality(RequestPlacesHolding(o))
       + Cardinality(WritersHolding(o))

SingleOwner ==
    \A f \in ImageFilenames :
       /\ SampleHolders(f) <= 1
       /\ ResultHolders(OutputFilename(f)) <= 1
       /\ (Count(decoded, f) > 0 /\ OutputFilename(f) \notin writeRequested)
             => SampleHolders(f) = 1
       /\ Count(decoded, f) = 0 => SampleHolders(f) = 0
       /\ (Count(inferred, f) > 0 /\ Count(saves, OutputFilename(f)) = 0)
             => ResultHolders(OutputFilename(f)) = 1
       /\ Count(inferred, f) = 0 => ResultHolders(OutputFilename(f)) = 0

\* A writer that takes a result image takes one that no writer holds or
\* has saved, and the image leaves the queue.
HandedToOneWriter ==
    \A w \in Writers :
       (writerPc[w] = "dequeue" /\ writerPc'[w] = "save_png") =>
          /\ Count(saves, writerItem'[w].filename) = 0
          /\ WritersHolding(writerItem'[w].filename) = { }
          /\ Len(result_image_write_requests'.data)
                = Len(result_image_write_requests.data) - 1

\* C20: always, every decoded sample and every result image is held by
\* exactly one of the readers, the read-result queue, main, the
\* write-request queue and the writers; and no result image is handed to
\* a second writer.
C20_SingleOwnership ==
    /\ []SingleOwner
    /\ [][HandedToOneWriter]_vars

\* A reader and main each hold a decoded sample while a writer holds a
\* result image.
C20_Witness ==
    /\ \E f \in ImageFilenames : ReadersHolding(f) # { }
    /\ \E f \in ImageFilenames : MainHoldsSample(f)
    /\ \E f \in ImageFilenames : WritersHolding(OutputFilename(f)) # { }

-----------------------------------------------------------------------------
(* Shutdown on every path.                                                 *)

WorkersStarted == readersStarted > 0 \/ writersStarted > 0
MainHasLeft == mainPc \in { "returned", "terminated" }
WorkersShutDown ==
    /\ ~full_image_read_requests.enabled
    /\ ~result_image_write_requests.enabled
    /\ readersJoined = readersStarted
    /\ writersJoined = writersStarted
    /\ \A r \in 1..readersStarted : readerPc[r] = "exited"
    /\ \A w \in 1..writersStarted : writerPc[w] = "exited"

\* C21: when main has left the pipeline after starting worker threads, by
\* its return or by a throw, both request pipes are disabled and every
\* started reader and writer thread has exited and has been joined.
C21_EveryExitShutsDown ==
    (WorkersStarted /\ MainHasLeft) => WorkersShutDown

====
